---- MODULE Spec2Model ----
(***************************************************************************)
(* Model of src/main.rs: a fixed-size worker thread pool (ThreadPool,      *)
(* Worker) fed through an mpsc channel whose receiver sits behind          *)
(* Arc<Mutex<..>>, and the connection handler handle_client that every     *)
(* job runs.                                                               *)
(*                                                                         *)
(* Threads: the acceptor (main), one thread per Worker, and the remote     *)
(* peers of the accepted connections (the environment).                    *)
(***************************************************************************)
EXTENDS Integers, Sequences, FiniteSets, TLC

\* Largest pool size tried for ThreadPool::new(size); main passes
\* num_cpus::get(), which is at least 1.
MaxWorkers == 2

\* Number of connections the acceptor hands to the pool before the model
\* stops accepting.
MaxJobs == 3

Jobs == 1..MaxJobs

\* Worker ids a pool of the largest size can hold (id in 0..size).
WorkerIds == 0..(MaxWorkers - 1)

NoJob == 0

NoWorker == -1

VARIABLES
    size,        \* the argument of ThreadPool::new
    workers,     \* ThreadPool.workers: the ids of the Worker values
    pc,          \* per worker: where its thread is in the loop of Worker::new
    job,         \* per worker: the job it holds (NoJob when none)
    lockHolder,  \* the worker holding the Mutex around the Receiver
    queue,       \* the channel's buffered jobs, oldest first
    sender,      \* "alive" | "dropped": ThreadPool.sender
    receiver,    \* "alive" | "dropped": the Receiver behind the Arc
    mainpc,      \* "accepting" | "panicked": the acceptor thread
    accepted,    \* number of connections accepted so far
    status,      \* per job: its life cycle
    runs,        \* per job: how many times a worker has called it
    conn,        \* per job: the TcpStream it captured
    inbox,       \* per job: what the peer has made available to read
    reads,       \* per job: number of stream.read calls that returned
    written,     \* per job: what write_all put on the wire
    raw,         \* from_raw: the text handed to it (request_str)
    request,     \* from_raw: the HttpRequest it built
    ppc,         \* from_raw: "raw" before the call, "parsed" after
    files,       \* handle_request: what the file system holds, by path
    bytes,       \* per handled connection: the text read from it
    responses,   \* per handled connection: the response built for it
    answered,    \* the handled connections whose response is built
    fmt          \* format_response: its arguments and its result

\* The thread pool and the connections' life cycle.
connVars == <<size, workers, pc, job, lockHolder, queue, sender, receiver, mainpc,
              accepted, status, runs, conn, inbox, reads, written>>

\* The text a handler works on: parsing, routing, formatting.
dataVars == <<raw, request, ppc, files, bytes, responses, answered, fmt>>

vars == <<connVars, dataVars>>

poolVars == <<size, workers>>

TypeOK ==
    /\ size \in 1..MaxWorkers
    /\ workers \subseteq WorkerIds
    /\ pc \in [workers -> {"lock", "recv", "read", "write", "flush", "stopped", "panicked"}]
    /\ job \in [workers -> Jobs \cup {NoJob}]
    /\ lockHolder \in workers \cup {NoWorker}
    /\ queue \in Seq(Jobs)
    /\ sender \in {"alive", "dropped"}
    /\ receiver \in {"alive", "dropped"}
    /\ mainpc \in {"accepting", "returned", "panicked"}
    /\ accepted \in 0..MaxJobs
    /\ status \in [Jobs -> {"new", "queued", "running", "finished", "faulted", "dropped"}]
    /\ runs \in [Jobs -> Nat]
    /\ conn \in [Jobs -> {"none", "open", "closed"}]
    /\ inbox \in [Jobs -> {"none", "data", "err"}]
    /\ reads \in [Jobs -> Nat]
    /\ written \in [Jobs -> {"none", "partial", "full"}]

----------------------------------------------------------------------------
(* ThreadPool::new *)

\* The loop run once too often.
NewWorkersOffByOne(n) == 0..n

\* for id in 0..size { workers.push(Worker::new(id, ..)) }
NewWorkers(n) == 0..(n - 1)

\* Every Worker::new spawns its thread at once; the thread starts its loop
\* at receiver.lock().
PoolInit ==
    /\ size \in 1..MaxWorkers
    /\ workers = NewWorkers(size)
    /\ pc = [w \in workers |-> "lock"]
    /\ job = [w \in workers |-> NoJob]
    /\ lockHolder = NoWorker
    /\ queue = <<>>
    /\ sender = "alive"
    /\ receiver = "alive"
    /\ mainpc = "accepting"
    /\ accepted = 0
    /\ status = [j \in Jobs |-> "new"]
    /\ runs = [j \in Jobs |-> 0]
    /\ conn = [j \in Jobs |-> "none"]
    /\ inbox = [j \in Jobs |-> "none"]
    /\ reads = [j \in Jobs |-> 0]
    /\ written = [j \in Jobs |-> "none"]

----------------------------------------------------------------------------
(* Helpers *)

InQueue(j, q) == \E i \in 1..Len(q) : q[i] = j

\* A worker thread that is still inside the loop of Worker::new.
Alive(w) == pc[w] \notin {"stopped", "panicked"}

Idle(w) == pc[w] \in {"lock", "recv"}

Executing(w) == pc[w] \in {"read", "write", "flush"}

\* The closure of each worker thread owns one clone of the Arc around the
\* receiver (ThreadPool::new drops its own at return).  Worker w holds the
\* last clone when every other thread has ended.
LastArc(w) == \A v \in workers \ {w} : ~Alive(v)

\* A stack instead of a queue: the job goes to the front.
SendFront(q, j) == <<j>> \o q

\* A channel of capacity one that gives up on a job when it is full.
SendLossy(q, j) == IF q = <<>> THEN <<j>> ELSE q

\* Sender::send on the unbounded channel: the job goes to the back.
Send(q, j) == Append(q, j)

\* A receive that hands out the newest job.
ReceivedNewest(q) == q[Len(q)]

\* Receiver::recv with a job buffered: the oldest job is handed out ...
Received(q) == Head(q)

\* ... and leaves the channel.
AfterRecv(q) == Tail(q)

\* Dropping the Receiver drops the jobs still buffered, and with each job
\* the TcpStream its closure captured.
DiscardStatus(st, q) == [j \in Jobs |-> IF InQueue(j, q) THEN "dropped" ELSE st[j]]

DiscardConn(cn, q) == [j \in Jobs |-> IF InQueue(j, q) THEN "closed" ELSE cn[j]]

\* unwrap() on an Err inside handle_client: nothing in the loop of Worker::new
\* catches the panic, so the worker thread ends.  The unwinding drops the
\* stream (closed), then the worker closure and its Arc clone; the last clone
\* takes the Receiver and the buffered jobs with it.
JobPanics(w) ==
    /\ pc' = [pc EXCEPT ![w] = "panicked"]
    /\ job' = [job EXCEPT ![w] = NoJob]
    /\ IF LastArc(w)
          THEN /\ receiver' = "dropped"
               /\ queue' = <<>>
               /\ status' = [DiscardStatus(status, queue) EXCEPT ![job[w]] = "faulted"]
               /\ conn' = [DiscardConn(conn, queue) EXCEPT ![job[w]] = "closed"]
          ELSE /\ UNCHANGED <<receiver, queue>>
               /\ status' = [status EXCEPT ![job[w]] = "faulted"]
               /\ conn' = [conn EXCEPT ![job[w]] = "closed"]

\* An exit of handle_client that unwraps its error like the write does.
JobReturnsByPanic(w) == JobPanics(w)

\* JobReturns with the stream leaked instead of dropped.
JobReturnsLeak(w) ==
    /\ status' = [status EXCEPT ![job[w]] = "finished"]
    /\ job' = [job EXCEPT ![w] = NoJob]
    /\ pc' = [pc EXCEPT ![w] = "lock"]
    /\ UNCHANGED <<queue, receiver, conn>>

\* handle_client returns (the if-let is over or was skipped): the stream goes
\* out of scope and is closed, the worker loops.
JobReturns(w) ==
    /\ status' = [status EXCEPT ![job[w]] = "finished"]
    /\ conn' = [conn EXCEPT ![job[w]] = "closed"]
    /\ job' = [job EXCEPT ![w] = NoJob]
    /\ pc' = [pc EXCEPT ![w] = "lock"]
    /\ UNCHANGED <<queue, receiver>>

----------------------------------------------------------------------------
(* main: the acceptor *)

\* for stream in listener.incoming(): Ok(stream) => pool.execute(|| handle_client(stream)).
\* execute is sender.send(Box::new(job)).unwrap(): send fails only when the
\* Receiver is gone, and then the unwrap panics in main; the unwinding drops
\* the rejected job (its stream) and the pool (its sender).
\* The Err(e) arm of the match only prints and changes no state.
Execute ==
    /\ mainpc = "accepting"
    /\ sender = "alive"
    /\ accepted < MaxJobs
    /\ accepted' = accepted + 1
    /\ IF receiver = "alive"
          THEN /\ queue' = Send(queue, accepted + 1)
               /\ status' = [status EXCEPT ![accepted + 1] = "queued"]
               /\ conn' = [conn EXCEPT ![accepted + 1] = "open"]
               /\ UNCHANGED <<mainpc, sender>>
          ELSE /\ mainpc' = "panicked"
               /\ sender' = "dropped"
               /\ status' = [status EXCEPT ![accepted + 1] = "dropped"]
               /\ conn' = [conn EXCEPT ![accepted + 1] = "closed"]
               /\ UNCHANGED queue
    /\ UNCHANGED <<dataVars, poolVars, pc, job, lockHolder, receiver, runs, inbox, reads, written>>

\* The owner lets the ThreadPool value go: its sender field is dropped and
\* the channel's producing side is closed for good.  (ThreadPool has no Drop
\* impl and keeps no thread joined: the workers run on.)
DropPool ==
    /\ mainpc = "accepting"
    /\ sender = "alive"
    /\ mainpc' = "returned"
    /\ sender' = "dropped"
    /\ UNCHANGED <<dataVars, poolVars, pc, job, lockHolder, queue, receiver, accepted,
                   status, runs, conn, inbox, reads, written>>

----------------------------------------------------------------------------
(* Worker::new: the loop of one worker thread *)

\* receiver.lock(): blocks until the mutex is free.  No thread can panic
\* while it holds the guard (recv does not panic), so the mutex is never
\* poisoned and the unwrap never fires.
WorkerLock(w) ==
    /\ pc[w] = "lock"
    /\ lockHolder = NoWorker
    /\ lockHolder' = w
    /\ pc' = [pc EXCEPT ![w] = "recv"]
    /\ UNCHANGED <<dataVars, poolVars, job, queue, sender, receiver, mainpc, accepted,
                   status, runs, conn, inbox, reads, written>>

\* The guard kept alive through the body (as `while let Ok(job) =
\* receiver.lock().unwrap().recv()` would keep it).
GuardHeldInBody(w) == w

\* let job = receiver.lock().unwrap().recv(); the MutexGuard is a temporary
\* of the let statement and is dropped at its end: the mutex is free again
\* before the match, whatever recv returned.
GuardAfterLet(w) == NoWorker

\* .recv() returns Ok(job); the guard is a temporary of the let statement and
\* is dropped at its end, before the match; then job() is called and
\* handle_client reaches stream.read.
WorkerRecvJob(w) ==
    /\ pc[w] = "recv"
    /\ queue # <<>>
    /\ job' = [job EXCEPT ![w] = Received(queue)]
    /\ queue' = AfterRecv(queue)
    /\ lockHolder' = GuardAfterLet(w)
    /\ status' = [status EXCEPT ![Received(queue)] = "running"]
    /\ runs' = [runs EXCEPT ![Received(queue)] = @ + 1]
    /\ pc' = [pc EXCEPT ![w] = "read"]
    /\ UNCHANGED <<dataVars, poolVars, sender, receiver, mainpc, accepted, conn, inbox,
                   reads, written>>

\* A recv that reports the close as soon as the sender is dropped, jobs
\* buffered or not.
RecvClosedEager == sender = "dropped"

\* A recv that never reports the close (a sender clone kept somewhere).
RecvNeverClosed == FALSE

\* recv reports the channel closed: nothing buffered and the sender dropped.
RecvClosed == queue = <<>> /\ sender = "dropped"

\* .recv() returns Err(_): the guard is dropped, the loop breaks, the thread
\* ends and drops its Arc clone.
WorkerRecvErr(w) ==
    /\ pc[w] = "recv"
    /\ RecvClosed
    /\ lockHolder' = GuardAfterLet(w)
    /\ pc' = [pc EXCEPT ![w] = "stopped"]
    /\ receiver' = IF LastArc(w) THEN "dropped" ELSE receiver
    /\ UNCHANGED <<dataVars, poolVars, job, queue, sender, mainpc, accepted, status,
                   runs, conn, inbox, reads, written>>

----------------------------------------------------------------------------
(* handle_client, run by the worker that holds the job *)

\* A read whose error is ignored (the buffer is used as it is).
ReadOkAlways(in) == TRUE

\* if let Ok(bytes_read) = stream.read(&mut buffer)
ReadOk(in) == in = "data"

\* A read with a timeout: it returns (an error) with nothing to read.
ReadTimesOut(in) == TRUE

\* stream.read blocks, with no timeout set on the stream, until the peer has
\* made something available.
ReadReturns(in) == in # "none"

\* The one stream.read(&mut buffer): it blocks until the peer has made
\* something available.  Ok(n), n >= 0: the bytes are parsed and routed and
\* the response is ready to write.  Err: the if-let is skipped and the
\* function returns.
HandleClientRead(w) ==
    /\ pc[w] = "read"
    /\ ReadReturns(inbox[job[w]])
    /\ reads' = [reads EXCEPT ![job[w]] = @ + 1]
    /\ IF ReadOk(inbox[job[w]])
          THEN /\ pc' = [pc EXCEPT ![w] = "write"]
               /\ UNCHANGED <<job, queue, receiver, status, conn>>
          ELSE JobReturns(w)
    /\ UNCHANGED <<dataVars, poolVars, lockHolder, sender, mainpc, accepted, runs,
                   inbox, written>>

\* What a failed write_all may have put on the wire before the error.
WriteLeftovers == {"none", "partial"}

\* stream.write_all(response.as_bytes()).unwrap()
HandleClientWrite(w) ==
    /\ pc[w] = "write"
    /\ \/ /\ written' = [written EXCEPT ![job[w]] = "full"]
          /\ pc' = [pc EXCEPT ![w] = "flush"]
          /\ UNCHANGED <<job, queue, receiver, status, conn>>
       \/ /\ \E left \in WriteLeftovers :
                written' = [written EXCEPT ![job[w]] = left]
          /\ JobPanics(w)
    /\ UNCHANGED <<dataVars, poolVars, lockHolder, sender, mainpc, accepted, runs,
                   inbox, reads>>

\* stream.flush().unwrap(), then the end of handle_client.  The Err outcome
\* is kept because the code unwraps an io::Result here; the shortest failing
\* runs all go through write_all.
HandleClientFlush(w) ==
    /\ pc[w] = "flush"
    /\ \/ JobReturns(w)
       \/ JobPanics(w)
    /\ UNCHANGED <<dataVars, poolVars, lockHolder, sender, mainpc, accepted, runs,
                   inbox, reads, written>>

----------------------------------------------------------------------------
(* The peers of the accepted connections *)

\* The peer sends its request, of any length (the one read takes at most the
\* 1024 bytes of the buffer), or half-closes without sending (read gives Ok(0)).
PeerSend(j) ==
    /\ conn[j] = "open"
    /\ inbox[j] = "none"
    /\ inbox' = [inbox EXCEPT ![j] = "data"]
    /\ UNCHANGED <<dataVars, poolVars, pc, job, lockHolder, queue, sender, receiver,
                   mainpc, accepted, status, runs, conn, reads, written>>

\* The peer resets the connection: the pending read fails.
PeerReset(j) ==
    /\ conn[j] = "open"
    /\ inbox[j] = "none"
    /\ inbox' = [inbox EXCEPT ![j] = "err"]
    /\ UNCHANGED <<dataVars, poolVars, pc, job, lockHolder, queue, sender, receiver,
                   mainpc, accepted, status, runs, conn, reads, written>>

----------------------------------------------------------------------------
(* Text.  A string is a sequence of characters, each written as a one-     *)
(* character string; U2 stands for one character that UTF-8 encodes in two *)
(* bytes.                                                                  *)

SP == " "

CR == "\r"

LF == "\n"

\* One character of two bytes.
U2 == "<U+00E9>"

CRLF == <<CR, LF>>

\* char::is_whitespace, on the characters used here.
IsWhitespace(c) == c \in {SP, CR, LF, "\t"}

\* The sequences over A of length 0..n.
SeqsUpTo(A, n) == UNION {[1..k -> A] : k \in 0..n}

\* Position of the first c in s, 0 when there is none.
IndexOf(s, c) ==
    IF \E i \in 1..Len(s) : s[i] = c
        THEN CHOOSE i \in 1..Len(s) : s[i] = c /\ \A k \in 1..(i - 1) : s[k] # c
        ELSE 0

StartsWith(s, prefix) ==
    /\ Len(s) >= Len(prefix)
    /\ SubSeq(s, 1, Len(prefix)) = prefix

EndsWith(s, suffix) ==
    /\ Len(s) >= Len(suffix)
    /\ SubSeq(s, Len(s) - Len(suffix) + 1, Len(s)) = suffix

----------------------------------------------------------------------------
(* HttpRequest::from_raw *)

\* A line without the "\r" that came before its "\n".
StripCR(l) == IF l # <<>> /\ l[Len(l)] = CR THEN SubSeq(l, 1, Len(l) - 1) ELSE l

\* str::lines: the text is cut after every "\n"; a line loses its "\n" and
\* the "\r" before it; a last line without "\n" is kept as it is; text that
\* ends with "\n" gives no empty last line.
RECURSIVE Lines(_)
Lines(s) ==
    IF s = <<>>
        THEN <<>>
        ELSE LET i == IndexOf(s, LF)
             IN  IF i = 0
                     THEN <<s>>
                     ELSE <<StripCR(SubSeq(s, 1, i - 1))>> \o Lines(SubSeq(s, i + 1, Len(s)))

\* Length of the run of non-whitespace characters l starts with.
RunLen(l) ==
    IF \E i \in 1..Len(l) : IsWhitespace(l[i])
        THEN (CHOOSE i \in 1..Len(l) :
                 IsWhitespace(l[i]) /\ \A k \in 1..(i - 1) : ~IsWhitespace(l[k])) - 1
        ELSE Len(l)

\* str::split_whitespace: the maximal runs of non-whitespace characters.
RECURSIVE SplitWhitespace(_)
SplitWhitespace(l) ==
    IF l = <<>>
        THEN <<>>
        ELSE IF IsWhitespace(l[1])
            THEN SplitWhitespace(Tail(l))
            ELSE <<SubSeq(l, 1, RunLen(l))>> \o SplitWhitespace(SubSeq(l, RunLen(l) + 1, Len(l)))

\* parts.next().unwrap_or("")
TokenOr(parts, n) == IF Len(parts) >= n THEN parts[n] ELSE <<>>

\* Position of the first ": " in l, 0 when there is none.
SeparatorAt(l) ==
    IF \E i \in 1..(Len(l) - 1) : l[i] = ":" /\ l[i + 1] = SP
        THEN CHOOSE i \in 1..(Len(l) - 1) :
                 /\ l[i] = ":" /\ l[i + 1] = SP
                 /\ \A k \in 1..(i - 1) : ~(l[k] = ":" /\ l[k + 1] = SP)
        ELSE 0

\* HashMap::new()
NoHeaders == [k \in {} |-> <<>>]

\* headers.insert(key, value): a later value replaces an earlier one.
Insert(hs, key, value) ==
    [k \in (DOMAIN hs) \cup {key} |-> IF k = key THEN value ELSE hs[k]]

\* for line in lines.by_ref(): stop after the first empty line; a line with
\* ": " adds a header, any other line is skipped.  Gives the headers and the
\* index of the first line the loop did not take.
RECURSIVE HeaderLoop(_, _, _)
HeaderLoop(ls, i, hs) ==
    IF i > Len(ls)
        THEN [headers |-> hs, rest |-> i]
        ELSE IF ls[i] = <<>>
            THEN [headers |-> hs, rest |-> i + 1]
            ELSE LET at == SeparatorAt(ls[i])
                 IN  HeaderLoop(ls, i + 1,
                         IF at = 0
                             THEN hs
                             ELSE Insert(hs, SubSeq(ls[i], 1, at - 1),
                                         SubSeq(ls[i], at + 2, Len(ls[i]))))

\* lines.collect::<Vec<&str>>().join("\n") over the lines from index i on.
RECURSIVE JoinLines(_, _)
JoinLines(ls, i) ==
    IF i > Len(ls)
        THEN <<>>
        ELSE IF i = Len(ls)
            THEN ls[i]
            ELSE ls[i] \o <<LF>> \o JoinLines(ls, i + 1)

from_raw(s) ==
    LET ls == Lines(s)
        request_line == IF ls = <<>> THEN <<>> ELSE ls[1]
        parts == SplitWhitespace(request_line)
        loop == HeaderLoop(ls, 2, NoHeaders)
    IN  [method |-> TokenOr(parts, 1),
         path |-> TokenOr(parts, 2),
         version |-> TokenOr(parts, 3),
         headers |-> loop.headers,
         body |-> JoinLines(ls, loop.rest)]

----------------------------------------------------------------------------
(* format_response *)

DigitChars == <<"0", "1", "2", "3", "4", "5", "6", "7", "8", "9">>

\* Display of a usize: its decimal digits, no padding.
RECURSIVE ToDec(_)
ToDec(n) ==
    IF n < 10
        THEN <<DigitChars[n + 1]>>
        ELSE ToDec(n \div 10) \o <<DigitChars[(n % 10) + 1]>>

\* The number of characters of s.
CharLen(s) == Len(s)

\* str::len: the number of bytes of the UTF-8 encoding of s.
RECURSIVE ByteLen(_)
ByteLen(s) ==
    IF s = <<>> THEN 0 ELSE (IF s[1] = U2 THEN 2 ELSE 1) + ByteLen(Tail(s))

HttpVersion == <<"H", "T", "T", "P", "/", "1", ".", "1", " ">>

ContentLengthName ==
    <<"C", "o", "n", "t", "e", "n", "t", "-", "L", "e", "n", "g", "t", "h", ":", " ">>

ContentTypeName ==
    <<"C", "o", "n", "t", "e", "n", "t", "-", "T", "y", "p", "e", ":", " ">>

\* format!("HTTP/1.1 {status}\r\nContent-Length: {}\r\nContent-Type: {}\r\n\r\n{body}",
\*         body.len(), content_type)
format_response(status_line, body, content_type) ==
    HttpVersion \o status_line \o CRLF
    \o ContentLengthName \o ToDec(ByteLen(body)) \o CRLF
    \o ContentTypeName \o content_type \o CRLF
    \o CRLF \o body

----------------------------------------------------------------------------
(* handle_api_request, handle_request *)

StatusOk == <<"2", "0", "0", " ", "O", "k">>

StatusNotFound == <<"4", "0", "4", " ", "N", "o", "t", " ", "F", "o", "u", "n", "d">>

ApplicationJson == <<"a", "p", "p", "l", "i", "c", "a", "t", "i", "o", "n", "/", "j",
        "s", "o", "n">>

TextHtml == <<"t", "e", "x", "t", "/", "h", "t", "m", "l">>

\* The content type of the 404 page, as the source spells it.
TextHtlm == <<"t", "e", "x", "t", "/", "h", "t", "l", "m">>

HelloBody == <<"{", "\"", "m", "e", "s", "s", "a", "g", "e", "\"", ":", "\"", "H", "e",
        "l", "l", "o", " ", ",", "A", "p", "i", "\"", "}">>

ApiNotFoundBody == <<"{", "\"", "e", "r", "r", "o", "r", "\"", ":", "\"", "N", "o",
        "t", " ", "f", "o", "u", "n", "d", "\"", "}">>

NotFoundPage == <<"<", "h", "1", ">", "4", "0", "4", " ", "-", " ", "P", "a", "g", "e",
        " ", "N", "o", "t", " ", "F", "o", "u", "n", "d", " ", "<", "/", "h", "1", ">">>

\* The prefix without its final "/".
ApiPrefixNoSlash == <<"/", "a", "p", "i">>

\* request.path.starts_with("/api/")
ApiPrefix == <<"/", "a", "p", "i", "/">>

ApiHello == <<"/", "a", "p", "i", "/", "h", "e", "l", "l", "o">>

\* The static root, as format!("public{}", request.path) uses it.
PublicRoot == <<"p", "u", "b", "l", "i", "c">>

IndexDocument == <<"p", "u", "b", "l", "i", "c", "/", "i", "n", "d", "e", "x", ".",
        "h", "t", "m", "l">>

\* An API that answers with the body it was sent.
handle_api_request_echo(req) ==
    format_response(StatusOk, req.body, ApplicationJson)

handle_api_request(req) ==
    IF req.path = ApiHello
        THEN format_response(StatusOk, HelloBody, ApplicationJson)
        ELSE format_response(StatusNotFound, ApiNotFoundBody, ApplicationJson)

\* What the file system holds at a path: nothing, something read_to_string
\* fails on (a directory, bytes that are not UTF-8), or a text.
Missing == [kind |-> "missing", text |-> <<>>]

Unreadable == [kind |-> "unreadable", text |-> <<>>]

TextFile(t) == [kind |-> "text", text |-> t]

EntryAt(fs, file_path) == IF file_path \in DOMAIN fs THEN fs[file_path] ELSE Missing

\* Path::new(&file_path).exists()
Exists(fs, file_path) == EntryAt(fs, file_path).kind # "missing"

\* fs::read_to_string(&file_path) is Ok
Readable(fs, file_path) == EntryAt(fs, file_path).kind = "text"

handle_request(req, fs) ==
    IF StartsWith(req.path, ApiPrefix)
        THEN handle_api_request(req)
        ELSE LET joined == PublicRoot \o req.path
                 file_path == IF joined = PublicRoot \o <<"/">> THEN IndexDocument ELSE joined
             IN  IF Exists(fs, file_path) /\ Readable(fs, file_path)
                     THEN format_response(StatusOk, EntryAt(fs, file_path).text, TextHtml)
                     ELSE format_response(StatusNotFound, NotFoundPage, TextHtlm)

----------------------------------------------------------------------------
(* The texts tried *)

\* Longest arbitrary text tried as the content of a read.
MaxRaw == 3

\* Longest request body tried.
MaxBody == 2

\* The characters arbitrary text is made of.
RawAlphabet == {"G", "/", SP, CR, LF}

\* The characters a request body is made of.
BodyAlphabet == {"a", CR, LF}

Methods == {<<"G">>}

Paths == {<<"/">>, <<"/", "a">>}

Versions == {<<"H">>}

\* Header lines "Key: Value", the keys of one request all different.
HeaderLists ==
    {<<>>,
     <<[key |-> <<"K">>, value |-> <<"v">>]>>,
     <<[key |-> <<"K">>, value |-> <<"v">>], [key |-> <<"L">>, value |-> <<"w">>]>>}

Bodies == SeqsUpTo(BodyAlphabet, MaxBody)

RECURSIVE HeaderText(_)
HeaderText(hs) ==
    IF hs = <<>>
        THEN <<>>
        ELSE hs[1].key \o <<":", SP>> \o hs[1].value \o CRLF \o HeaderText(Tail(hs))

\* METHOD PATH VERSION CRLF, the header lines, an empty line, BODY.
WellFormed(m, p, v, hs, b) ==
    m \o <<SP>> \o p \o <<SP>> \o v \o CRLF \o HeaderText(hs) \o CRLF \o b

\* What stream.read may hand to from_raw: well-formed requests, and any
\* short text (an empty read of zero bytes included).
RawInputs ==
    {WellFormed(m, p, v, hs, b) :
        m \in Methods, p \in Paths, v \in Versions, hs \in HeaderLists, b \in Bodies}
    \cup SeqsUpTo(RawAlphabet, MaxRaw)

EmptyRequest ==
    [method |-> <<>>, path |-> <<>>, version |-> <<>>, headers |-> NoHeaders,
     body |-> <<>>]

\* The connections whose handling is followed side by side.
Slots == {1, 2}

ParseIdle ==
    /\ raw = <<>>
    /\ request = EmptyRequest
    /\ ppc = "idle"

RouteIdle ==
    /\ files = NoHeaders
    /\ bytes = [s \in Slots |-> <<>>]
    /\ responses = [s \in Slots |-> <<>>]
    /\ answered = {}

FormatIdle ==
    fmt = [status |-> <<>>, body |-> <<>>, ctype |-> <<>>, out |-> <<>>, done |-> FALSE]

\* The pool just built, no text in hand.
Init ==
    /\ PoolInit
    /\ ParseIdle
    /\ RouteIdle
    /\ FormatIdle

\* let request = HttpRequest::from_raw(&request_str);
FromRaw ==
    /\ ppc = "raw"
    /\ request' = from_raw(raw)
    /\ ppc' = "parsed"
    /\ UNCHANGED <<connVars, raw, files, bytes, responses, answered, fmt>>

\* from_raw on every text of RawInputs, the pool left as built.
ParseInit ==
    /\ PoolInit
    /\ size = 1
    /\ raw \in RawInputs
    /\ request = EmptyRequest
    /\ ppc = "raw"
    /\ RouteIdle
    /\ FormatIdle

ParseNext == FromRaw

ParseSpec == ParseInit /\ [][ParseNext]_vars

----------------------------------------------------------------------------
(* handle_client from the read to the response, on two connections *)

\* The paths requested: the root, a file, a path with no file, the API's
\* prefix without its "/", the two kinds of API path.
RoutePaths ==
    {<<"/">>, <<"/", "a">>, <<"/", "b">>, ApiPrefixNoSlash, ApiHello, ApiPrefix \o <<"x">>}

\* What is read from a connection: a request for each path, in two forms
\* that differ in method, version, headers and body; and a request line with
\* no path at all.
RouteInputs ==
    {WellFormed(<<"G">>, p, <<"H">>, <<>>, <<>>) : p \in RoutePaths}
    \cup {WellFormed(<<"P">>, p, <<"V">>, <<[key |-> <<"K">>, value |-> <<"v">>]>>, <<"a">>) :
             p \in RoutePaths}
    \cup {<<"G">> \o CRLF \o CRLF}

\* The paths the file system is asked about.
FilePaths == {PublicRoot, IndexDocument, PublicRoot \o <<"/", "a">>}

FileEntries == {Missing, Unreadable, TextFile(<<"h", U2>>)}

\* The file systems tried: the content of the static root does not change
\* while requests are handled.
FileSystems == [FilePaths -> FileEntries]

\* let request = HttpRequest::from_raw(&request_str);
\* let response = handle_request(&request);
Respond(s) ==
    /\ s \in Slots \ answered
    /\ responses' = [responses EXCEPT ![s] = handle_request(from_raw(bytes[s]), files)]
    /\ answered' = answered \cup {s}
    /\ UNCHANGED <<connVars, raw, request, ppc, files, bytes, fmt>>

RouteInit ==
    /\ PoolInit
    /\ size = 1
    /\ ParseIdle
    /\ files \in FileSystems
    /\ bytes \in [Slots -> RouteInputs]
    /\ responses = [s \in Slots |-> <<>>]
    /\ answered = {}
    /\ FormatIdle

RouteNext == \E s \in Slots : Respond(s)

RouteSpec == RouteInit /\ [][RouteNext]_vars

----------------------------------------------------------------------------
(* format_response on its own *)

\* Longest arbitrary body tried.
MaxContent == 2

ContentAlphabet == {"h", U2, LF}

StatusLines == {StatusOk, StatusNotFound}

ContentTypes == {ApplicationJson, TextHtml, TextHtlm}

FormatBodies ==
    {HelloBody, ApiNotFoundBody, NotFoundPage} \cup SeqsUpTo(ContentAlphabet, MaxContent)

Format ==
    /\ ~fmt.done
    /\ fmt' = [fmt EXCEPT !.out = format_response(fmt.status, fmt.body, fmt.ctype),
                          !.done = TRUE]
    /\ UNCHANGED <<connVars, raw, request, ppc, files, bytes, responses, answered>>

FormatInit ==
    /\ PoolInit
    /\ size = 1
    /\ ParseIdle
    /\ RouteIdle
    /\ fmt \in [status : StatusLines, body : FormatBodies, ctype : ContentTypes,
                out : {<<>>}, done : {FALSE}]

FormatNext == Format

FormatSpec == FormatInit /\ [][FormatNext]_vars

----------------------------------------------------------------------------

\* Any step of worker w's thread.
WorkerStep(w) ==
    \/ WorkerLock(w)
    \/ WorkerRecvJob(w)
    \/ WorkerRecvErr(w)
    \/ HandleClientRead(w)
    \/ HandleClientWrite(w)
    \/ HandleClientFlush(w)

Next ==
    \/ Execute
    \/ DropPool
    \/ \E w \in workers : WorkerLock(w)
    \/ \E w \in workers : WorkerRecvJob(w)
    \/ \E w \in workers : WorkerRecvErr(w)
    \/ \E w \in workers : HandleClientRead(w)
    \/ \E w \in workers : HandleClientWrite(w)
    \/ \E w \in workers : HandleClientFlush(w)
    \/ \E j \in Jobs : PeerSend(j)
    \/ \E j \in Jobs : PeerReset(j)

Spec == Init /\ [][Next]_vars

\* The operating system schedules every worker thread that can take a step,
\* and every peer eventually sends its request or gives up.
FairSpec ==
    /\ Spec
    /\ \A w \in WorkerIds : WF_vars(w \in workers /\ WorkerStep(w))
    /\ \A j \in Jobs : WF_vars(PeerSend(j) \/ PeerReset(j))

----------------------------------------------------------------------------
(* Properties *)

Submitted(j) == status[j] # "new"

Ended(j) == status[j] \in {"finished", "faulted"}

AnyFault == \E j \in Jobs : status[j] = "faulted"

Holders(j) == {w \in workers : job[w] = j}

AliveWorkers == {w \in workers : Alive(w)}

\* A job whose handle_client failed: its read failed, or its write/flush did.
Failed(j) ==
    \/ status[j] = "faulted"
    \/ status[j] = "finished" /\ inbox[j] = "err"

\* C1: under fair scheduling, every job handed to execute whose run comes to
\* an end is eventually executed, and no job is ever executed more than once;
\* this for every pool size K and every number of jobs N, K < N included.
\* "Jobs that each run to completion": no job ends in a panic.
C1_AllJobsExecutedOnce ==
    /\ [](\A j \in Jobs : runs[j] <= 1)
    /\ \A j \in Jobs :
          (status[j] = "queued") ~> ((status[j] = "finished" /\ runs[j] = 1) \/ AnyFault)

\* More jobs than workers, each of them executed once and none faulted.
C1_Witness ==
    /\ size < accepted
    /\ accepted = MaxJobs
    /\ \A j \in Jobs : status[j] = "finished" /\ runs[j] = 1

\* C2: while the sender is alive, every job handed to execute is in exactly
\* one place (in the queue, held by exactly one worker, or ended) and has
\* been run at most once.
C2_JobInOnePlace ==
    sender = "alive" =>
        \A j \in Jobs :
            Submitted(j) =>
                /\ runs[j] <= 1
                /\ Cardinality(Holders(j)) <= 1
                /\ (IF InQueue(j, queue) THEN 1 ELSE 0)
                   + Cardinality(Holders(j))
                   + (IF Ended(j) THEN 1 ELSE 0) = 1

\* C3: once a job has failed inside handle_client, and while the pool is
\* there, all `size` workers are still able to receive jobs.
C3_FailureStaysInJob ==
    (sender = "alive" /\ \E j \in Jobs : Failed(j)) =>
        Cardinality(AliveWorkers) = size

\* C4: a worker only moves Idle -> Executing, Executing -> Idle and
\* Idle -> Stopped, and it leaves the loop only when the sender is dropped.
C4_WorkerStateMachine ==
    [][\A w \in workers :
          \/ pc'[w] = pc[w]
          \/ Idle(w) /\ Idle(w)'
          \/ Executing(w) /\ Executing(w)'
          \/ Idle(w) /\ Executing(w)'
          \/ Executing(w) /\ Idle(w)'
          \/ Idle(w) /\ pc'[w] = "stopped" /\ sender = "dropped"]_vars

\* C5: every call of execute appends the job to the queue and returns to the
\* acceptor without an error, whatever the workers are doing.
C5_ExecuteNeverFails ==
    [][accepted' # accepted =>
          /\ queue' = Append(queue, accepted')
          /\ mainpc' = "accepting"]_vars

\* C6: once the sender is dropped, every worker eventually leaves its loop:
\* it receives the queue-closed signal and stops, unless the job it was
\* running has taken its thread down before.  No worker stays in lock() or
\* recv() for ever.
C6_WorkersStopAfterClose ==
    \A w \in WorkerIds :
        (sender = "dropped" /\ w \in workers)
            ~> (w \in workers /\ pc[w] \in {"stopped", "panicked"})

\* The pool was dropped by its owner and every worker got the signal.
C6_Witness ==
    /\ mainpc = "returned"
    /\ size = MaxWorkers
    /\ \A w \in workers : pc[w] = "stopped"
    /\ \E j \in Jobs : status[j] = "finished"

\* C7: the pool has exactly the `size` workers made by new(size), each holds
\* at most one job, and at most `size` jobs are running at the same time.
C7_FixedPool ==
    /\ Cardinality(workers) = size
    /\ workers = 0..(size - 1)
    /\ \A j \in Jobs : status[j] = "running" <=> Cardinality(Holders(j)) = 1
    /\ Cardinality({j \in Jobs : status[j] = "running"}) <= size

\* Every worker of the largest pool is running a job.
C7_Witness ==
    /\ size = MaxWorkers
    /\ Cardinality({j \in Jobs : status[j] = "running"}) = size

\* C8: when the read of a connection fails, that step ends the job: nothing
\* was or is written on the connection, the read is not repeated, the worker
\* is back at the top of its loop and the pool's channel is untouched.
C8_ReadFailureAbandons ==
    [][\A w \in workers :
          (pc[w] = "read" /\ inbox[job[w]] = "err" /\ pc'[w] # "read") =>
              /\ pc'[w] = "lock"
              /\ reads'[job[w]] = 1
              /\ written'[job[w]] = "none"
              /\ status'[job[w]] = "finished"
              /\ queue' = queue
              /\ receiver' = receiver
              /\ \A v \in workers \ {w} : pc'[v] = pc[v]]_vars

\* A job ended by a failed read, its worker waiting for the next job.
C8_Witness ==
    \E j \in Jobs :
        /\ inbox[j] = "err"
        /\ reads[j] = 1
        /\ status[j] = "finished"
        /\ \E w \in workers : Idle(w) /\ runs[j] = 1

\* C9: a connection is read once and never again; nothing is written on it
\* before that read has succeeded; what was written is never written over;
\* and a handler moves read -> write -> flush -> end, in that order.
C9_ReadThenWriteOnce ==
    [][/\ \A j \in Jobs :
             /\ reads'[j] <= 1
             /\ written'[j] # "none" => (reads'[j] = 1 /\ inbox'[j] = "data")
             /\ written[j] # "none" => written'[j] = written[j]
             /\ conn[j] = "closed" => (reads'[j] = reads[j] /\ written'[j] = written[j])
       /\ \A w \in workers :
             /\ pc'[w] = "write" => pc[w] \in {"read", "write"}
             /\ pc'[w] = "flush" => pc[w] \in {"write", "flush"}
             /\ (pc[w] = "flush" /\ pc'[w] = "lock") =>
                    written[job[w]] = "full" /\ conn'[job[w]] = "closed"]_vars

\* A connection read once, answered in full and closed.
C9_Witness ==
    \E j \in Jobs :
        /\ reads[j] = 1
        /\ written[j] = "full"
        /\ status[j] = "finished"
        /\ conn[j] = "closed"

\* C10: a connection is open exactly while its job exists (queued or
\* running) and closed exactly when the job is gone: returned, panicked, or
\* dropped unrun together with the channel.
C10_ClosedWhenJobEnds ==
    \A j \in Jobs :
        /\ conn[j] = "none" <=> status[j] = "new"
        /\ conn[j] = "open" <=> status[j] \in {"queued", "running"}
        /\ conn[j] = "closed" <=> status[j] \in {"finished", "faulted", "dropped"}
        /\ status[j] = "running" => \E w \in workers : job[w] = j /\ Executing(w)

\* The three exit paths of handle_client, each taken by some job: the
\* response sent, the read failed, the write or flush failed.
C10_Witness ==
    \E a, b, c \in Jobs :
        /\ status[a] = "finished" /\ written[a] = "full" /\ conn[a] = "closed"
        /\ status[b] = "finished" /\ inbox[b] = "err" /\ conn[b] = "closed"
        /\ status[c] = "faulted" /\ conn[c] = "closed"

\* Every worker is inside stream.read on a connection whose peer has sent
\* nothing.
AllSilent == \A w \in workers : pc[w] = "read" /\ inbox[job[w]] = "none"

\* C11: a worker reading from a peer that stays silent stays in that read
\* with that job; and while all the workers are held so, no job starts or
\* ends, yet execute still appends the jobs it is given and returns.
C11_SilentPeersHoldWorkers ==
    [][/\ \A w \in workers :
             (pc[w] = "read" /\ inbox[job[w]] = "none" /\ inbox'[job[w]] = "none") =>
                 (pc'[w] = "read" /\ job'[w] = job[w])
       /\ (AllSilent /\ AllSilent') =>
             /\ runs' = runs
             /\ \A j \in Jobs : status'[j] # status[j] => status'[j] = "queued"
             /\ accepted' # accepted =>
                    (queue' = Append(queue, accepted') /\ mainpc' = "accepting")
       /\ (AllSilent /\ mainpc = "accepting" /\ accepted < MaxJobs) =>
             ENABLED Execute]_vars

\* The largest pool, every worker held by a silent peer, and a job that was
\* enqueued after they were taken still waiting in the queue.
C11_Witness ==
    /\ size = MaxWorkers
    /\ AllSilent
    /\ queue # <<>>
    /\ mainpc = "accepting"

\* A worker has received the job.
Started(j) == runs[j] >= 1

\* C12: with a single worker, a job is received only when every job enqueued
\* before it has ended, so the jobs end in the order of their enqueueing.
\* (With two workers or more either order is reachable: C12_Witness and
\* C12_InOrderReachable.)
C12_SingleWorkerInOrder ==
    size = 1 =>
        \A a, b \in Jobs : (a < b /\ Started(b)) => Ended(a)

\* Two workers or more: job 2 has finished while job 1, enqueued before it,
\* is still running.
C12_Witness ==
    /\ size >= 2
    /\ status[2] = "finished"
    /\ status[1] = "running"

\* Two workers or more: job 1 has finished while job 2 is still running.
C12_InOrderReachable ==
    /\ size >= 2
    /\ status[1] = "finished"
    /\ status[2] = "running"

\* C18: the queue is first-in first-out: a job is received by a worker only
\* after every job enqueued before it has been received, whatever the pool
\* size; and the job a receive hands out is the oldest one still queued.
C18_ReceivedInEnqueueOrder ==
    [][/\ \A a, b \in Jobs : (a < b /\ Started(b)') => Started(a)'
       /\ \A b \in Jobs :
             runs'[b] # runs[b] =>
                 \A a \in Jobs : a < b => (Started(a) /\ status[a] # "queued")]_vars

\* The largest pool: jobs 1 and 2 received, in that order, job 3 waiting.
C18_Witness ==
    /\ size = MaxWorkers
    /\ size >= 2
    /\ Started(1) /\ Started(2)
    /\ status[3] = "queued"

\* C19: the mutex around the receiver is held only by a worker inside recv:
\* never by a worker that is executing a job, and never by a thread that
\* has ended, by break or by panic (so it is never left held, nor poisoned
\* by a panic under the guard).  Hence whenever a job is buffered and a
\* worker is at lock() or in recv(), some worker can take its next step,
\* whatever the other workers' jobs are doing.
C19_LockOnlyWhileReceiving ==
    /\ lockHolder # NoWorker => (lockHolder \in workers /\ pc[lockHolder] = "recv")
    /\ \A w \in workers : pc[w] = "recv" => lockHolder = w
    /\ \A w \in workers : (Executing(w) \/ ~Alive(w)) => lockHolder # w
    /\ (queue # <<>> /\ \E w \in workers : Idle(w)) =>
           \E w \in workers : ENABLED (WorkerLock(w) \/ WorkerRecvJob(w))

\* One worker's thread was taken down by its job while another worker holds
\* the mutex inside recv.
C19_Witness ==
    \E w, v \in workers :
        /\ pc[w] = "panicked"
        /\ pc[v] = "recv"
        /\ lockHolder = v
        /\ \E j \in Jobs : status[j] = "faulted" /\ runs[j] = 1

\* C20: a worker gets the queue-closed signal only when the sender is
\* dropped and nothing is buffered; so a job that is queued when the sender
\* is dropped is still executed, once, under fair scheduling and unless a
\* job panics, and when every worker has stopped no job is left queued.
C20_CloseKeepsQueuedJobs ==
    /\ [][\A w \in workers :
             (pc'[w] = "stopped" /\ pc[w] # "stopped") =>
                 (queue = <<>> /\ sender = "dropped" /\ queue' = <<>>)]_vars
    /\ [](\A j \in Jobs : runs[j] <= 1)
    /\ []((\A w \in workers : pc[w] = "stopped") =>
              \A j \in Jobs : status[j] # "queued")
    /\ \A j \in Jobs :
          (sender = "dropped" /\ status[j] = "queued")
              ~> ((status[j] = "finished" /\ runs[j] = 1) \/ AnyFault)

\* The pool has been released with a job still buffered, and a worker inside
\* recv is about to be handed that job, not the queue-closed signal.
C20_Witness ==
    /\ mainpc = "returned"
    /\ sender = "dropped"
    /\ queue # <<>>
    /\ \E w \in workers : pc[w] = "recv" /\ ~ENABLED WorkerRecvErr(w)

\* The mapping a list of header lines with different keys stands for.
HeaderMap(hs) ==
    [k \in {hs[i].key : i \in 1..Len(hs)} |->
        (CHOOSE h \in {hs[i] : i \in 1..Len(hs)} : h.key = k).value]

\* C16: from a well-formed request, from_raw recovers METHOD, PATH, VERSION,
\* one header per header line, and BODY exactly as it follows the empty line.
C16_ParseRecoversRequest ==
    ppc = "parsed" =>
        \A m \in Methods, p \in Paths, v \in Versions, hs \in HeaderLists, b \in Bodies :
            raw = WellFormed(m, p, v, hs, b) =>
                request = [method |-> m, path |-> p, version |-> v,
                           headers |-> HeaderMap(hs), body |-> b]

\* The part of C16 that holds: everything but the body is recovered, and so
\* is a body with no line terminator in it.
C16_AllButBodyRecovered ==
    ppc = "parsed" =>
        \A m \in Methods, p \in Paths, v \in Versions, hs \in HeaderLists, b \in Bodies :
            raw = WellFormed(m, p, v, hs, b) =>
                /\ request.method = m
                /\ request.path = p
                /\ request.version = v
                /\ request.headers = HeaderMap(hs)
                /\ (\A i \in 1..Len(b) : b[i] \notin {CR, LF}) => request.body = b

\* C17: the path of every request from_raw builds starts with "/".
C17_PathStartsWithSlash ==
    ppc = "parsed" => (request.path # <<>> /\ request.path[1] = "/")

\* The wire format of a response, the digits of Content-Length given.
Wire(stat, digits, ctype, body) ==
    <<"H", "T", "T", "P", "/", "1", ".", "1", " ">> \o stat \o <<"\r", "\n">>
    \o <<"C", "o", "n", "t", "e", "n", "t", "-", "L", "e", "n", "g", "t", "h", ":", " ">>
    \o digits \o <<"\r", "\n">>
    \o <<"C", "o", "n", "t", "e", "n", "t", "-", "T", "y", "p", "e", ":", " ">>
    \o ctype \o <<"\r", "\n", "\r", "\n">> \o body

\* The bytes of a text: one per character, one more for each two-byte one.
Utf8Bytes(t) == Len(t) + Cardinality({i \in 1..Len(t) : t[i] = U2})

\* The file a path that is not the API's stands for.
StaticFile(path) == IF path = <<"/">> THEN IndexDocument ELSE PublicRoot \o path

\* C13: the response built for a connection is the one its path calls for:
\* under "/api/", the JSON 200 for /api/hello and the JSON 404 for any other
\* path; otherwise 200 with the file's text as text/html when "public" +
\* path ("public/index.html" for "/") exists and can be read, and the 404
\* page when it is missing or cannot be read.
C13_RouteByPath ==
    \A s \in answered :
        LET path == from_raw(bytes[s]).path
            file == StaticFile(path)
        IN  IF StartsWith(path, <<"/", "a", "p", "i", "/">>)
                THEN IF path = <<"/", "a", "p", "i", "/", "h", "e", "l", "l", "o">>
                         THEN responses[s] =
                                  Wire(StatusOk, <<"2", "4">>, ApplicationJson, HelloBody)
                         ELSE responses[s] =
                                  Wire(StatusNotFound, <<"2", "1">>, ApplicationJson,
                                       ApiNotFoundBody)
                ELSE IF file \in DOMAIN files /\ files[file].kind = "text"
                         THEN responses[s] =
                                  Wire(StatusOk,
                                       <<DigitChars[Utf8Bytes(files[file].text) + 1]>>,
                                       TextHtml, files[file].text)
                         ELSE /\ StartsWith(responses[s],
                                            HttpVersion \o StatusNotFound \o CRLF)
                              /\ EndsWith(responses[s], CRLF \o CRLF \o NotFoundPage)

\* Both connections answered: one asked for "/" and got the index document,
\* the other asked for "/api" (not an API path) and got the 404 page.
C13_Witness ==
    /\ answered = Slots
    /\ from_raw(bytes[1]).path = <<"/">>
    /\ files[IndexDocument].kind = "text"
    /\ StartsWith(responses[1], HttpVersion \o StatusOk)
    /\ from_raw(bytes[2]).path = ApiPrefixNoSlash
    /\ EndsWith(responses[2], NotFoundPage)

\* C14: two connections whose requests have the same path get the same
\* response, byte for byte, whatever else their requests hold and whichever
\* was answered first.
C14_SamePathSameResponse ==
    \A s, t \in answered :
        from_raw(bytes[s]).path = from_raw(bytes[t]).path => responses[s] = responses[t]

\* Two requests for the same API path that differ in method, version,
\* headers and body, both answered.
C14_Witness ==
    /\ answered = Slots
    /\ bytes[1] # bytes[2]
    /\ from_raw(bytes[1]).path = from_raw(bytes[2]).path
    /\ from_raw(bytes[1]).method # from_raw(bytes[2]).method
    /\ from_raw(bytes[1]).body # from_raw(bytes[2]).body
    /\ StartsWith(from_raw(bytes[1]).path, ApiPrefix)
    /\ responses[1] = responses[2]

\* The value of a text of decimal digits.
RECURSIVE DecValue(_)
DecValue(d) ==
    IF d = <<>>
        THEN 0
        ELSE 10 * DecValue(SubSeq(d, 1, Len(d) - 1))
             + (CHOOSE n \in 0..9 : DigitChars[n + 1] = d[Len(d)])

\* C15: the text format_response builds is "HTTP/1.1 <status>\r\n
\* Content-Length: <n>\r\nContent-Type: <type>\r\n\r\n<body>", nothing else,
\* with n the decimal number of bytes of the body.
C15_WireFormat ==
    fmt.done =>
        LET head == <<"H", "T", "T", "P", "/", "1", ".", "1", " ">> \o fmt.status
                    \o <<"\r", "\n">>
                    \o <<"C", "o", "n", "t", "e", "n", "t", "-", "L", "e", "n", "g", "t",
                         "h", ":", " ">>
            tail == <<"\r", "\n">>
                    \o <<"C", "o", "n", "t", "e", "n", "t", "-", "T", "y", "p", "e", ":", " ">>
                    \o fmt.ctype \o <<"\r", "\n", "\r", "\n">> \o fmt.body
            digits == SubSeq(fmt.out, Len(head) + 1, Len(fmt.out) - Len(tail))
        IN  /\ Len(fmt.out) > Len(head) + Len(tail)
            /\ StartsWith(fmt.out, head)
            /\ EndsWith(fmt.out, tail)
            /\ \A i \in 1..Len(digits) : \E n \in 0..9 : digits[i] = DigitChars[n + 1]
            /\ (Len(digits) > 1 => digits[1] # "0")
            /\ DecValue(digits) = Utf8Bytes(fmt.body)

\* A formatted body that holds a two-byte character: more bytes than
\* characters.
C15_Witness ==
    /\ fmt.done
    /\ \E i \in 1..Len(fmt.body) : fmt.body[i] = U2
    /\ Len(fmt.body) = 2
    /\ fmt.status = StatusNotFound

\* The same of every response built for a connection: each one is a status
\* line, Content-Length with the bytes of what follows the blank line,
\* Content-Type, a blank line and the body.
C15_EveryResponseFormatted ==
    \A s \in answered :
        \E st \in StatusLines, ct \in ContentTypes, k \in 0..Len(responses[s]) :
            LET out == responses[s]
                body == SubSeq(out, Len(out) - k + 1, Len(out))
                head == HttpVersion \o st \o CRLF \o ContentLengthName
                tail == CRLF \o ContentTypeName \o ct \o CRLF \o CRLF \o body
                digits == SubSeq(out, Len(head) + 1, Len(out) - Len(tail))
            IN  /\ Len(out) > Len(head) + Len(tail)
                /\ StartsWith(out, head)
                /\ EndsWith(out, tail)
                /\ \A i \in 1..Len(digits) : \E n \in 0..9 : digits[i] = DigitChars[n + 1]
                /\ DecValue(digits) = Utf8Bytes(body)

====
